---- MODULE Spec2Model ----
(***************************************************************************)
(* The sources endpoints of the Open Notebook API (api/routers/sources.py) *)
(* as a state machine over the Domain Store and the ingestion pipeline.    *)
(*                                                                         *)
(* A handler runs without interruption between two await points.  The only *)
(* await of the sources router is `await source_graph.ainvoke(...)` in     *)
(* create_source, so create_source is two steps (up to the call, and after *)
(* it) with the pipeline's own step between them; every other handler is   *)
(* one step.                                                               *)
(***************************************************************************)
EXTENDS Integers, Sequences, FiniteSets, TLC

\* ------------------------------------------------------------------ values

\* Python None where a string is expected, and where an object is expected.
None == "None"
NoObject == [none |-> TRUE]

\* `not x` for an Optional[str]: None and the empty string are falsy.
Falsy(x) == x = None \/ x = ""

\* ------------------------------------------------------------------ bounds

\* Longest transformations list of a request.
MaxTrans == 2

\* Requests issued in one run.
MaxRequests == 3

\* ------------------------------------------------------------------ inputs

NotebookIds == {"nb1", "nbX"}
TransformationIds == {"t1", "t2", "tX", "tY"}
SourceIds == {"s1", "s2"}
SourceIdOrder == <<"s1", "s2">>

SourceTypes == {"link", "upload", "text", "other"}
Urls == {None, "", "http://u"}
FilePaths == {None, "", "/f"}
Contents == {None, "", "hello"}

SeqsUpTo(S, n) == UNION {[1..k -> S] : k \in 0..n}

\* SourceCreate as the handler reads it (the title field is never read).
SourceCreates ==
    [notebook_id : NotebookIds, type : SourceTypes, url : Urls,
     file_path : FilePaths, content : Contents,
     transformations : SeqsUpTo(TransformationIds, MaxTrans),
     embed : BOOLEAN, delete_source : BOOLEAN]

\* A request body: one that parses into SourceCreate, or one that does not.
Bodies == {[parses |-> FALSE]} \cup {[parses |-> TRUE, data |-> d] : d \in SourceCreates}

\* What a collaborator call can end in other than a return value.
Returned == [type |-> "return"]
HTTPException(status_code, detail) ==
    [type |-> "HTTPException", status_code |-> status_code, detail |-> detail]
InvalidInputError(msg) == [type |-> "InvalidInputError", msg |-> msg]
DatabaseOperationError(msg) == [type |-> "DatabaseOperationError", msg |-> msg]
RuntimeError(msg) == [type |-> "RuntimeError", msg |-> msg]

\* The k-th collaborator call of a request raises exc (at = 0: none does).
NoFault == [at |-> 0, exc |-> Returned]
Raises(fault, k) == fault.at = k

\* What the Domain Store raises when a call to it fails.
StoreExceptions ==
    {HTTPException(503, "store unavailable"), InvalidInputError("invalid record"),
     DatabaseOperationError("db down")}
FaultPositions == {1, 2}
Faults == {NoFault} \cup [at : FaultPositions, exc : StoreExceptions]

\* SourceUpdate bodies: a field that is absent or null is None in the handler.
SourceUpdates ==
    {[title |-> "a"], [topics |-> <<"x">>], [title |-> "a", topics |-> <<"x">>],
     [title |-> None]}

\* The notebook_id query parameter of GET /api/sources.
NotebookQueries == {None, "", "nb1", "nb2", "nbX"}

SourceCreateOf(notebook_id, type, url, file_path, content, trans, embed, delete_source) ==
    [notebook_id |-> notebook_id, type |-> type, url |-> url, file_path |-> file_path,
     content |-> content, transformations |-> trans, embed |-> embed,
     delete_source |-> delete_source]

\* The bodies posted where the other endpoints are exercised too.
CrudBodies ==
    {[parses |-> FALSE]} \cup
    {[parses |-> TRUE, data |-> d] : d \in
        {SourceCreateOf("nb1", "text", None, None, "hello", <<>>, FALSE, FALSE),
         SourceCreateOf("nb1", "link", "http://u", None, None, <<"t1">>, TRUE, FALSE),
         SourceCreateOf("nb1", "upload", None, "/f", None, <<"t2", "t1">>, FALSE, TRUE),
         SourceCreateOf("nb1", "link", None, "/f", None, <<>>, FALSE, FALSE),
         SourceCreateOf("nb1", "text", None, None, "hello", <<"t1", "tX">>, FALSE, FALSE),
         SourceCreateOf("nb2", "text", None, None, "hello", <<>>, FALSE, FALSE),
         SourceCreateOf("nbX", "text", None, None, "hello", <<>>, FALSE, FALSE)}}

\* The bodies posted where the store's calls may raise.
FaultBodies ==
    {[parses |-> TRUE, data |-> d] : d \in
        {SourceCreateOf("nb1", "text", None, None, "hello", <<"t1">>, FALSE, FALSE),
         SourceCreateOf("nbX", "upload", None, "/f", None, <<>>, FALSE, TRUE)}}

PipelineOutcomes ==
    {Returned, HTTPException(409, "conflict"), InvalidInputError("unsupported content"),
     DatabaseOperationError("db down"), RuntimeError("model timeout")}

\* ------------------------------------------------------------------- state

VARIABLES
    notebooks,        \* Domain Store: ids of the stored Notebooks
    transformations,  \* Domain Store: ids of the stored Transformations
    sources,          \* Domain Store: id -> stored Source
    post,             \* the POST /api/sources request in progress
    last,             \* the latest request served by a handler without await
    deleted,          \* ids whose DELETE was answered 200 and that were not created again
    ever,             \* ids that were ever stored
    budget,           \* requests still to be issued
    files,            \* paths of the uploaded files that are on disk
    notes,            \* Domain Store: id -> stored Note
    note,             \* the latest request served by a handler of the notes router
    client,           \* the APIClient call in progress, or the latest one made
    inflight,         \* PUT and DELETE requests received and not yet handled
    done              \* the PUT and DELETE requests handled, in the order handled

\* What no handler of the sources router reads or writes.
elsewhere == <<notes, note, client, inflight, done>>

vars == <<notebooks, transformations, sources, post, last, deleted, ever, budget, files,
          notes, note, client, inflight, done>>

Idle == [pc |-> "idle"]

\* ------------------------------------------------------------ Domain Store

Notebook_get(id) == IF id \in notebooks THEN [id |-> id] ELSE NoObject

Transformation_get(id) ==
    IF id \in transformations THEN [id |-> id, name |-> "name of " \o id] ELSE NoObject

Source_get(id) == IF id \in DOMAIN sources THEN sources[id] ELSE NoObject

\* The store after source.save() and after source.delete().
Source_save(source) ==
    [id \in DOMAIN sources \cup {source.id} |-> IF id = source.id THEN source ELSE sources[id]]
Source_delete(source) == [id \in DOMAIN sources \ {source.id} |-> sources[id]]

\* The first unused Source id, in SourceIdOrder.
FreeIds == {i \in 1..Len(SourceIdOrder) : SourceIdOrder[i] \notin DOMAIN sources}
FreshId == SourceIdOrder[CHOOSE i \in FreeIds : \A j \in FreeIds : i <= j]

\* ---------------------------------------------------- create_source, part 1

Ok(v) == [ok |-> TRUE, value |-> v]
Raise(e) == [ok |-> FALSE, exc |-> e]

\* content_state_of with `is None` in place of `not`: an empty field passes.
content_state_of_none_only(source_data) ==
    IF source_data.type = "link" THEN
        IF source_data.url = None
        THEN Raise(HTTPException(400, "URL is required for link type"))
        ELSE Ok([url |-> source_data.url])
    ELSE IF source_data.type = "upload" THEN
        IF source_data.file_path = None
        THEN Raise(HTTPException(400, "File path is required for upload type"))
        ELSE Ok([file_path |-> source_data.file_path,
                 delete_source |-> source_data.delete_source])
    ELSE IF source_data.type = "text" THEN
        IF source_data.content = None
        THEN Raise(HTTPException(400, "Content is required for text type"))
        ELSE Ok([content |-> source_data.content])
    ELSE Raise(HTTPException(400, "Invalid source type. Must be link, upload, or text"))

\* content_state_of forwarding the content of a link request when it has one.
content_state_of_extra_field(source_data) ==
    IF source_data.type = "link" THEN
        IF Falsy(source_data.url)
        THEN Raise(HTTPException(400, "URL is required for link type"))
        ELSE IF Falsy(source_data.content) THEN Ok([url |-> source_data.url])
        ELSE Ok([url |-> source_data.url, content |-> source_data.content])
    ELSE IF source_data.type = "upload" THEN
        IF Falsy(source_data.file_path)
        THEN Raise(HTTPException(400, "File path is required for upload type"))
        ELSE Ok([file_path |-> source_data.file_path,
                 delete_source |-> source_data.delete_source])
    ELSE IF source_data.type = "text" THEN
        IF Falsy(source_data.content)
        THEN Raise(HTTPException(400, "Content is required for text type"))
        ELSE Ok([content |-> source_data.content])
    ELSE Raise(HTTPException(400, "Invalid source type. Must be link, upload, or text"))

\* The origin branch: the content_state of the request, or the 400 it raises.
content_state_of(source_data) ==
    IF source_data.type = "link" THEN
        IF Falsy(source_data.url)
        THEN Raise(HTTPException(400, "URL is required for link type"))
        ELSE Ok([url |-> source_data.url])
    ELSE IF source_data.type = "upload" THEN
        IF Falsy(source_data.file_path)
        THEN Raise(HTTPException(400, "File path is required for upload type"))
        ELSE Ok([file_path |-> source_data.file_path,
                 delete_source |-> source_data.delete_source])
    ELSE IF source_data.type = "text" THEN
        IF Falsy(source_data.content)
        THEN Raise(HTTPException(400, "Content is required for text type"))
        ELSE Ok([content |-> source_data.content])
    ELSE Raise(HTTPException(400, "Invalid source type. Must be link, upload, or text"))

\* resolve_transformations with `continue` in place of the raise: an id that does
\* not resolve is skipped.
RECURSIVE resolve_transformations_skipping(_, _, _, _, _)
resolve_transformations_skipping(ids, i, acc, calls, fault) ==
    IF i > Len(ids) THEN [ok |-> TRUE, value |-> acc, calls |-> calls]
    ELSE LET trans_id == ids[i]
             called == Append(calls, <<"Transformation.get", trans_id>>)
         IN  IF Raises(fault, i + 1)
             THEN [ok |-> FALSE, calls |-> called, exc |-> fault.exc]
             ELSE LET transformation == Transformation_get(trans_id) IN
                  IF transformation = NoObject
                  THEN resolve_transformations_skipping(ids, i + 1, acc, called, fault)
                  ELSE resolve_transformations_skipping(ids, i + 1,
                                                        Append(acc, transformation),
                                                        called, fault)

\* The transformations loop from index i on: acc is the list resolved so far,
\* calls the collaborator calls made so far (Notebook.get was call 1, so the
\* lookup of ids[i] is call i + 1).
RECURSIVE resolve_transformations(_, _, _, _, _)
resolve_transformations(ids, i, acc, calls, fault) ==
    IF i > Len(ids) THEN [ok |-> TRUE, value |-> acc, calls |-> calls]
    ELSE LET trans_id == ids[i]
             called == Append(calls, <<"Transformation.get", trans_id>>)
         IN  IF Raises(fault, i + 1)
             THEN [ok |-> FALSE, calls |-> called, exc |-> fault.exc]
             ELSE LET transformation == Transformation_get(trans_id) IN
                  IF transformation = NoObject
                  THEN [ok |-> FALSE, calls |-> called,
                        exc |-> HTTPException(404, "Transformation " \o trans_id \o " not found")]
                  ELSE resolve_transformations(ids, i + 1, Append(acc, transformation),
                                               called, fault)

\* create_source_validate with the origin branch ahead of the notebook lookup.
create_source_validate_origin_first(source_data, fault) ==
    LET calls0 == <<<<"Notebook.get", source_data.notebook_id>>>>
        cs == content_state_of(source_data)
    IN
    IF ~cs.ok THEN [ok |-> FALSE, calls |-> <<>>, exc |-> cs.exc, sources |-> sources]
    ELSE IF Raises(fault, 1)
    THEN [ok |-> FALSE, calls |-> calls0, exc |-> fault.exc, sources |-> sources]
    ELSE IF Notebook_get(source_data.notebook_id) = NoObject
    THEN [ok |-> FALSE, calls |-> calls0, exc |-> HTTPException(404, "Notebook not found"),
          sources |-> sources]
    ELSE LET tr == IF Len(source_data.transformations) > 0
                   THEN resolve_transformations(source_data.transformations, 1, <<>>,
                                                calls0, fault)
                   ELSE [ok |-> TRUE, value |-> <<>>, calls |-> calls0]
         IN  IF ~tr.ok
             THEN [ok |-> FALSE, calls |-> tr.calls, exc |-> tr.exc, sources |-> sources]
             ELSE [ok |-> TRUE, calls |-> tr.calls, sources |-> sources,
                   value |-> [content_state |-> cs.value,
                              notebook_id |-> source_data.notebook_id,
                              apply_transformations |-> tr.value,
                              embed |-> source_data.embed]]

\* create_source_validate saving a Source before its checks, as create_note saves
\* its Note before the notebook lookup.
create_source_validate_saving(source_data, fault) ==
    LET calls0 == <<<<"Source.save", FreshId>>, <<"Notebook.get", source_data.notebook_id>>>>
        saved == Source_save([id |-> FreshId, title |-> None, topics |-> <<>>,
                              asset |-> NoObject, full_text |-> None,
                              embedded_chunks |-> 0,
                              notebook_id |-> source_data.notebook_id])
    IN
    IF Raises(fault, 1)
    THEN [ok |-> FALSE, calls |-> calls0, exc |-> fault.exc, sources |-> saved]
    ELSE IF Notebook_get(source_data.notebook_id) = NoObject
    THEN [ok |-> FALSE, calls |-> calls0, exc |-> HTTPException(404, "Notebook not found"),
          sources |-> saved]
    ELSE LET cs == content_state_of(source_data) IN
         IF ~cs.ok THEN [ok |-> FALSE, calls |-> calls0, exc |-> cs.exc, sources |-> saved]
         ELSE LET tr == IF Len(source_data.transformations) > 0
                        THEN resolve_transformations(source_data.transformations, 1, <<>>,
                                                     calls0, fault)
                        ELSE [ok |-> TRUE, value |-> <<>>, calls |-> calls0]
              IN  IF ~tr.ok
                  THEN [ok |-> FALSE, calls |-> tr.calls, exc |-> tr.exc, sources |-> saved]
                  ELSE [ok |-> TRUE, calls |-> tr.calls, sources |-> sources,
                        value |-> [content_state |-> cs.value,
                                   notebook_id |-> source_data.notebook_id,
                                   apply_transformations |-> tr.value,
                                   embed |-> source_data.embed]]

\* create_source from its first line to the call of source_graph.ainvoke: the
\* arguments of the call, or the exception raised before it.
create_source_validate(source_data, fault) ==
    LET calls0 == <<<<"Notebook.get", source_data.notebook_id>>>> IN
    IF Raises(fault, 1)
    THEN [ok |-> FALSE, calls |-> calls0, exc |-> fault.exc, sources |-> sources]
    ELSE
    LET notebook == Notebook_get(source_data.notebook_id) IN
    IF notebook = NoObject
    THEN [ok |-> FALSE, calls |-> calls0, exc |-> HTTPException(404, "Notebook not found"),
          sources |-> sources]
    ELSE LET cs == content_state_of(source_data) IN
         IF ~cs.ok THEN [ok |-> FALSE, calls |-> calls0, exc |-> cs.exc, sources |-> sources]
         ELSE LET tr == IF Len(source_data.transformations) > 0
                        THEN resolve_transformations(source_data.transformations, 1, <<>>,
                                                     calls0, fault)
                        ELSE [ok |-> TRUE, value |-> <<>>, calls |-> calls0]
              IN  IF ~tr.ok
                  THEN [ok |-> FALSE, calls |-> tr.calls, exc |-> tr.exc, sources |-> sources]
                  ELSE [ok |-> TRUE, calls |-> tr.calls, sources |-> sources,
                        value |-> [content_state |-> cs.value,
                                   notebook_id |-> source_data.notebook_id,
                                   apply_transformations |-> tr.value,
                                   embed |-> source_data.embed]]

\* create_source_except without the InvalidInputError clause.
create_source_except_generic(e) ==
    IF e.type = "HTTPException" THEN e
    ELSE HTTPException(500, "Error creating source: " \o e.msg)

\* The except clauses of create_source: the HTTPException the caller sees.
create_source_except(e) ==
    IF e.type = "HTTPException" THEN e
    ELSE IF e.type = "InvalidInputError" THEN HTTPException(400, e.msg)
    ELSE HTTPException(500, "Error creating source: " \o e.msg)

ErrorResponse(e) == [status_code |-> e.status_code, detail |-> e.detail]

\* A request-validation handler answering 400.
request_validation_response_400 ==
    [status_code |-> 400, detail |-> "request validation error"]

\* FastAPI answers a body that does not parse into the handler's SourceCreate
\* parameter itself, with its default request-validation response: the app
\* registers no exception handler of its own.
request_validation_response ==
    [status_code |-> 422, detail |-> "request validation error"]

\* ------------------------------------------------------ ingestion pipeline

\* The Source the pipeline persists for the arguments of one invocation.
pipeline_source(id, args) ==
    LET cs == args.content_state IN
    [id |-> id,
     title |-> None,
     topics |-> <<>>,
     asset |-> IF "url" \in DOMAIN cs THEN [file_path |-> None, url |-> cs.url]
               ELSE IF "file_path" \in DOMAIN cs THEN [file_path |-> cs.file_path, url |-> None]
               ELSE NoObject,
     full_text |-> IF "content" \in DOMAIN cs THEN cs.content ELSE "extracted text",
     embedded_chunks |-> IF args.embed THEN 1 ELSE 0,
     notebook_id |-> args.notebook_id]

\* ---------------------------------------------------- create_source, part 2

AssetModel(asset) ==
    IF asset = NoObject THEN NoObject
    ELSE [file_path |-> asset.file_path, url |-> asset.url]

SourceResponse(source) ==
    [id |-> source.id, title |-> source.title, topics |-> source.topics,
     asset |-> AssetModel(source.asset), full_text |-> source.full_text,
     embedded_chunks |-> source.embedded_chunks]

\* create_source after the await: the response for the pipeline's outcome.
create_source_respond(outcome, result) ==
    IF outcome.type = "return"
    THEN [status_code |-> 200, body |-> SourceResponse(result.source)]
    ELSE ErrorResponse(create_source_except(outcome))

\* ------------------------------------------------------------- get_sources

SourceListResponse(source) ==
    [id |-> source.id, title |-> source.title, topics |-> source.topics,
     asset |-> AssetModel(source.asset), embedded_chunks |-> source.embedded_chunks]

get_sources_except(e) ==
    IF e.type = "HTTPException" THEN e
    ELSE HTTPException(500, "Error fetching sources: " \o e.msg)

\* get_sources answering with Source.get_all() whether or not a notebook is named.
get_sources_unfiltered(notebook_id, fault) ==
    LET calls1 == <<<<"Source.get_all", "updated desc">>>> IN
    IF Raises(fault, 1)
    THEN [response |-> ErrorResponse(get_sources_except(fault.exc)), calls |-> calls1,
          sources |-> sources]
    ELSE IF ~Falsy(notebook_id) /\ Notebook_get(notebook_id) = NoObject
    THEN [response |-> ErrorResponse(get_sources_except(HTTPException(404, "Notebook not found"))),
          calls |-> calls1, sources |-> sources]
    ELSE [response |-> [status_code |-> 200,
                        body |-> {SourceListResponse(sources[id]) : id \in DOMAIN sources}],
          calls |-> calls1, sources |-> sources]

\* GET /api/sources: the list is modelled as the set of its entries.
get_sources(notebook_id, fault) ==
    IF ~Falsy(notebook_id) THEN
        LET calls1 == <<<<"Notebook.get", notebook_id>>>> IN
        IF Raises(fault, 1)
        THEN [response |-> ErrorResponse(get_sources_except(fault.exc)), calls |-> calls1,
              sources |-> sources]
        ELSE IF Notebook_get(notebook_id) = NoObject
        THEN [response |-> ErrorResponse(get_sources_except(HTTPException(404, "Notebook not found"))),
              calls |-> calls1, sources |-> sources]
        ELSE [response |-> [status_code |-> 200,
                            body |-> {SourceListResponse(sources[id]) :
                                        id \in {i \in DOMAIN sources :
                                                  sources[i].notebook_id = notebook_id}}],
              calls |-> calls1, sources |-> sources]
    ELSE
        LET calls1 == <<<<"Source.get_all", "updated desc">>>> IN
        IF Raises(fault, 1)
        THEN [response |-> ErrorResponse(get_sources_except(fault.exc)), calls |-> calls1,
              sources |-> sources]
        ELSE [response |-> [status_code |-> 200,
                            body |-> {SourceListResponse(sources[id]) : id \in DOMAIN sources}],
              calls |-> calls1, sources |-> sources]

\* -------------------------------------------------------------- get_source

get_source_except(e) ==
    IF e.type = "HTTPException" THEN e
    ELSE HTTPException(500, "Error fetching source: " \o e.msg)

\* get_source without `if not source`: building the response of None raises.
get_source_unchecked(source_id, fault) ==
    LET calls1 == <<<<"Source.get", source_id>>>> IN
    IF Raises(fault, 1)
    THEN [response |-> ErrorResponse(get_source_except(fault.exc)), calls |-> calls1,
          sources |-> sources]
    ELSE LET source == Source_get(source_id) IN
         IF source = NoObject
         THEN [response |-> ErrorResponse(get_source_except(
                                RuntimeError("'NoneType' object has no attribute 'id'"))),
               calls |-> calls1, sources |-> sources]
         ELSE [response |-> [status_code |-> 200, body |-> SourceResponse(source)],
               calls |-> calls1, sources |-> sources]

get_source(source_id, fault) ==
    LET calls1 == <<<<"Source.get", source_id>>>> IN
    IF Raises(fault, 1)
    THEN [response |-> ErrorResponse(get_source_except(fault.exc)), calls |-> calls1,
          sources |-> sources]
    ELSE LET source == Source_get(source_id) IN
         IF source = NoObject
         THEN [response |-> ErrorResponse(get_source_except(HTTPException(404, "Source not found"))),
               calls |-> calls1, sources |-> sources]
         ELSE [response |-> [status_code |-> 200, body |-> SourceResponse(source)],
               calls |-> calls1, sources |-> sources]

\* ----------------------------------------------------------- update_source

update_source_except(e) ==
    IF e.type = "HTTPException" THEN e
    ELSE IF e.type = "InvalidInputError" THEN HTTPException(400, e.msg)
    ELSE HTTPException(500, "Error updating source: " \o e.msg)

\* `source_update.title is not None`, `source_update.topics is not None`.
HasTitle(source_update) == "title" \in DOMAIN source_update /\ source_update.title # None
HasTopics(source_update) == "topics" \in DOMAIN source_update

\* update_source assigning both fields whether or not the update carries them.
update_source_overwriting(source_id, source_update, fault) ==
    LET calls1 == <<<<"Source.get", source_id>>>> IN
    IF Raises(fault, 1)
    THEN [response |-> ErrorResponse(update_source_except(fault.exc)), calls |-> calls1,
          sources |-> sources]
    ELSE LET source == Source_get(source_id) IN
         IF source = NoObject
         THEN [response |-> ErrorResponse(update_source_except(HTTPException(404, "Source not found"))),
               calls |-> calls1, sources |-> sources]
         ELSE LET updated == [source EXCEPT
                                !.title = IF HasTitle(source_update)
                                          THEN source_update.title ELSE None,
                                !.topics = IF HasTopics(source_update)
                                           THEN source_update.topics ELSE <<>>]
                  calls2 == Append(calls1, <<"Source.save", source_id>>)
              IN  IF Raises(fault, 2)
                  THEN [response |-> ErrorResponse(update_source_except(fault.exc)),
                        calls |-> calls2, sources |-> sources]
                  ELSE [response |-> [status_code |-> 200, body |-> SourceResponse(updated)],
                        calls |-> calls2, sources |-> Source_save(updated)]

update_source(source_id, source_update, fault) ==
    LET calls1 == <<<<"Source.get", source_id>>>> IN
    IF Raises(fault, 1)
    THEN [response |-> ErrorResponse(update_source_except(fault.exc)), calls |-> calls1,
          sources |-> sources]
    ELSE LET source == Source_get(source_id) IN
         IF source = NoObject
         THEN [response |-> ErrorResponse(update_source_except(HTTPException(404, "Source not found"))),
               calls |-> calls1, sources |-> sources]
         ELSE LET titled == IF HasTitle(source_update)
                            THEN [source EXCEPT !.title = source_update.title] ELSE source
                  updated == IF HasTopics(source_update)
                             THEN [titled EXCEPT !.topics = source_update.topics] ELSE titled
                  calls2 == Append(calls1, <<"Source.save", source_id>>)
              IN  IF Raises(fault, 2)
                  THEN [response |-> ErrorResponse(update_source_except(fault.exc)),
                        calls |-> calls2, sources |-> sources]
                  ELSE [response |-> [status_code |-> 200, body |-> SourceResponse(updated)],
                        calls |-> calls2, sources |-> Source_save(updated)]

\* ----------------------------------------------------------- delete_source

\* delete_source_except without the `except HTTPException: raise` clause.
delete_source_except_wrapping(e) ==
    HTTPException(500, "Error deleting source: " \o
                       (IF e.type = "HTTPException" THEN e.detail ELSE e.msg))

delete_source_except(e) ==
    IF e.type = "HTTPException" THEN e
    ELSE HTTPException(500, "Error deleting source: " \o e.msg)

delete_source(source_id, fault) ==
    LET calls1 == <<<<"Source.get", source_id>>>> IN
    IF Raises(fault, 1)
    THEN [response |-> ErrorResponse(delete_source_except(fault.exc)), calls |-> calls1,
          sources |-> sources]
    ELSE LET source == Source_get(source_id) IN
         IF source = NoObject
         THEN [response |-> ErrorResponse(delete_source_except(HTTPException(404, "Source not found"))),
               calls |-> calls1, sources |-> sources]
         ELSE LET calls2 == Append(calls1, <<"Source.delete", source_id>>) IN
              IF Raises(fault, 2)
              THEN [response |-> ErrorResponse(delete_source_except(fault.exc)),
                    calls |-> calls2, sources |-> sources]
              ELSE [response |-> [status_code |-> 200,
                                  body |-> [message |-> "Source deleted successfully"]],
                    calls |-> calls2, sources |-> Source_delete(source)]

\* ----------------------------------------------------------------- actions

\* POST /api/sources arrives, its body among B and its store faults among F:
\* FastAPI parses the body and, if it parses, runs create_source up to its await.
PostSources(B, F) ==
    /\ post.pc = "idle"
    /\ budget > 0
    /\ FreeIds # {}
    /\ budget' = budget - 1
    /\ \E body \in B, fault \in F :
       IF ~body.parses
       THEN /\ sources' = sources
            /\ post' = [pc |-> "responded", body |-> body, fault |-> fault, calls |-> <<>>,
                        invoked |-> <<>>, runs |-> 0, outcome |-> NoObject, extracted |-> FALSE,
                        result |-> NoObject, response |-> request_validation_response]
       ELSE LET r == create_source_validate(body.data, fault) IN
            /\ sources' = r.sources
            /\ IF r.ok
               THEN post' = [pc |-> "awaiting", body |-> body, fault |-> fault,
                             calls |-> Append(r.calls, <<"source_graph.ainvoke",
                                                        body.data.notebook_id>>),
                             invoked |-> <<r.value>>, runs |-> 0,
                             outcome |-> NoObject, extracted |-> FALSE, result |-> NoObject, response |-> NoObject]
               ELSE post' = [pc |-> "responded", body |-> body, fault |-> fault,
                             calls |-> r.calls, invoked |-> <<>>, runs |-> 0,
                             outcome |-> NoObject, extracted |-> FALSE, result |-> NoObject,
                             response |-> ErrorResponse(create_source_except(r.exc))]
    /\ UNCHANGED <<notebooks, transformations, last, deleted, ever, files>>
    /\ UNCHANGED elsewhere

\* Whether the pipeline, given these arguments, removes the uploaded file once
\* it has extracted its text.
Unlinks(args) ==
    /\ "delete_source" \in DOMAIN args.content_state
    /\ "file_path" \in DOMAIN args.content_state
    /\ args.content_state.delete_source = TRUE

\* The pipeline finishes the invocation: it persists a Source and returns it, or
\* it raises, before or after it extracted the text. It removes the uploaded
\* file only when it is asked to and has extracted the text.
PipelineStep ==
    /\ post.pc = "awaiting"
    /\ \E outcome \in PipelineOutcomes, extracted \in BOOLEAN :
       LET args == post.invoked[Len(post.invoked)] IN
       /\ outcome.type = "return" => extracted
       /\ ~Unlinks(args) => (extracted <=> outcome.type = "return")
       /\ files' = IF extracted /\ Unlinks(args)
                   THEN files \ {args.content_state.file_path} ELSE files
       /\ IF outcome.type = "return"
          THEN LET source == pipeline_source(FreshId, args) IN
               /\ sources' = Source_save(source)
               /\ deleted' = deleted \ {source.id}
               /\ ever' = ever \cup {source.id}
               /\ post' = [post EXCEPT !.pc = "resuming", !.outcome = outcome,
                                       !.extracted = extracted,
                                       !.runs = @ + 1, !.result = [source |-> source]]
          ELSE /\ UNCHANGED <<sources, deleted, ever>>
               /\ post' = [post EXCEPT !.pc = "resuming", !.outcome = outcome,
                                       !.extracted = extracted, !.runs = @ + 1]
    /\ UNCHANGED <<notebooks, transformations, last, budget>>
    /\ UNCHANGED elsewhere

\* PostResume removing the uploaded file itself when the pipeline raised.
PostResume_unlinking ==
    /\ post.pc = "resuming"
    /\ post' = [post EXCEPT !.pc = "responded",
                            !.response = create_source_respond(post.outcome, post.result)]
    /\ files' = IF post.outcome.type # "return" /\ post.body.data.type = "upload"
                THEN files \ {post.body.data.file_path} ELSE files
    /\ UNCHANGED <<notebooks, transformations, sources, last, deleted, ever, budget>>
    /\ UNCHANGED elsewhere

\* PostResume calling the pipeline once more when it raised.
PostResume_retrying ==
    /\ post.pc = "resuming"
    /\ IF post.outcome.type # "return" /\ Len(post.invoked) < 2
       THEN post' = [post EXCEPT !.pc = "awaiting",
                                 !.invoked = Append(@, post.invoked[1]),
                                 !.calls = Append(@, <<"source_graph.ainvoke",
                                                      post.body.data.notebook_id>>)]
       ELSE post' = [post EXCEPT !.pc = "responded",
                                 !.response = create_source_respond(post.outcome, post.result)]
    /\ UNCHANGED <<notebooks, transformations, sources, last, deleted, ever, budget, files>>
    /\ UNCHANGED elsewhere

\* create_source resumes after the await and answers.
PostResume ==
    /\ post.pc = "resuming"
    /\ post' = [post EXCEPT !.pc = "responded",
                            !.response = create_source_respond(post.outcome, post.result)]
    /\ UNCHANGED <<notebooks, transformations, sources, last, deleted, ever, budget, files>>
    /\ UNCHANGED elsewhere

\* The response is delivered; the handler keeps nothing of the request.
Close ==
    /\ post.pc = "responded"
    /\ post' = Idle
    /\ UNCHANGED <<notebooks, transformations, sources, last, deleted, ever, budget, files>>
    /\ UNCHANGED elsewhere

\* What `last` records of a request served in one step.
Served(op, arg, update, fault, r) ==
    [n |-> budget, op |-> op, arg |-> arg, update |-> update, fault |-> fault,
     response |-> r.response, calls |-> r.calls,
     was_deleted |-> arg \in deleted, was_ever |-> arg \in ever]

\* GET /api/sources
GetSources(F) ==
    /\ budget > 0
    /\ budget' = budget - 1
    /\ \E notebook_id \in NotebookQueries, fault \in F :
       LET r == get_sources(notebook_id, fault) IN
       /\ sources' = r.sources
       /\ last' = Served("get_sources", notebook_id, NoObject, fault, r)
    /\ UNCHANGED <<notebooks, transformations, post, deleted, ever, files>>
    /\ UNCHANGED elsewhere

\* GET /api/sources/{source_id}
GetSource(F) ==
    /\ budget > 0
    /\ budget' = budget - 1
    /\ \E source_id \in SourceIds, fault \in F :
       LET r == get_source(source_id, fault) IN
       /\ sources' = r.sources
       /\ last' = Served("get_source", source_id, NoObject, fault, r)
    /\ UNCHANGED <<notebooks, transformations, post, deleted, ever, files>>
    /\ UNCHANGED elsewhere

\* PUT /api/sources/{source_id}
PutSource(F) ==
    /\ budget > 0
    /\ budget' = budget - 1
    /\ \E source_id \in SourceIds, source_update \in SourceUpdates, fault \in F :
       LET r == update_source(source_id, source_update, fault) IN
       /\ sources' = r.sources
       /\ last' = Served("update_source", source_id, source_update, fault, r)
    /\ UNCHANGED <<notebooks, transformations, post, deleted, ever, files>>
    /\ UNCHANGED elsewhere

\* DELETE /api/sources/{source_id}
DeleteSource(F) ==
    /\ budget > 0
    /\ budget' = budget - 1
    /\ \E source_id \in SourceIds, fault \in F :
       LET r == delete_source(source_id, fault) IN
       /\ sources' = r.sources
       /\ last' = Served("delete_source", source_id, NoObject, fault, r)
       /\ deleted' = IF r.response.status_code = 200 THEN deleted \cup {source_id} ELSE deleted
    /\ UNCHANGED <<notebooks, transformations, post, ever, files>>
    /\ UNCHANGED elsewhere

\* -------------------------------------------------------- the notes router

NoteIdOrder == <<"n1", "n2", "n3">>
NoteIds == {"n1", "n2", "n3"}

\* NoteCreate and NoteUpdate as the handlers read them.
NoteCreates ==
    [title : {None, "t"}, content : {"c"}, note_type : {"human", "ai"},
     notebook_id : {None, "", "nb1", "nbX"}]
NoteUpdates == {[title |-> "t2"], [content |-> "c2"], [note_type |-> "ai"], [title |-> None]}

Note_get(id) == IF id \in DOMAIN notes THEN notes[id] ELSE NoObject

\* The store after note.save() and after note.delete().
Note_save(n) ==
    [id \in DOMAIN notes \cup {n.id} |-> IF id = n.id THEN n ELSE notes[id]]
Note_delete(n) == [id \in DOMAIN notes \ {n.id} |-> notes[id]]

\* The id save() gives a new Note: the first unused one, in NoteIdOrder.
FreeNoteIds == {i \in 1..Len(NoteIdOrder) : NoteIdOrder[i] \notin DOMAIN notes}
FreshNoteId == NoteIdOrder[CHOOSE i \in FreeNoteIds : \A j \in FreeNoteIds : i <= j]

NoteResponse(n) ==
    [id |-> n.id, title |-> n.title, content |-> n.content, note_type |-> n.note_type]

create_note_except(e) ==
    IF e.type = "HTTPException" THEN e
    ELSE IF e.type = "InvalidInputError" THEN HTTPException(400, e.msg)
    ELSE HTTPException(500, "Error creating note: " \o e.msg)

\* POST /api/notes: the Note is saved, then the notebook is looked up.
create_note(note_data) ==
    LET new_note == [id |-> FreshNoteId, title |-> note_data.title,
                     content |-> note_data.content, note_type |-> note_data.note_type,
                     notebook_id |-> None]
        saved == Note_save(new_note)
    IN  IF ~Falsy(note_data.notebook_id)
        THEN IF Notebook_get(note_data.notebook_id) = NoObject
             THEN [response |-> ErrorResponse(create_note_except(
                                    HTTPException(404, "Notebook not found"))),
                   notes |-> saved]
             ELSE [response |-> [status_code |-> 200, body |-> NoteResponse(new_note)],
                   notes |-> [saved EXCEPT ![new_note.id].notebook_id = note_data.notebook_id]]
        ELSE [response |-> [status_code |-> 200, body |-> NoteResponse(new_note)],
              notes |-> saved]

get_notes_except(e) ==
    IF e.type = "HTTPException" THEN e
    ELSE HTTPException(500, "Error fetching notes: " \o e.msg)

\* GET /api/notes: the list is modelled as the set of its entries.
get_notes(notebook_id) ==
    IF ~Falsy(notebook_id)
    THEN IF Notebook_get(notebook_id) = NoObject
         THEN [response |-> ErrorResponse(get_notes_except(
                                HTTPException(404, "Notebook not found"))),
               notes |-> notes]
         ELSE [response |-> [status_code |-> 200,
                             body |-> {NoteResponse(notes[id]) :
                                         id \in {i \in DOMAIN notes :
                                                   notes[i].notebook_id = notebook_id}}],
               notes |-> notes]
    ELSE [response |-> [status_code |-> 200,
                        body |-> {NoteResponse(notes[id]) : id \in DOMAIN notes}],
          notes |-> notes]

get_note(note_id) ==
    LET n == Note_get(note_id) IN
    IF n = NoObject
    THEN [response |-> ErrorResponse(HTTPException(404, "Note not found")), notes |-> notes]
    ELSE [response |-> [status_code |-> 200, body |-> NoteResponse(n)], notes |-> notes]

\* `note_update.<field> is not None`
HasField(note_update, field) ==
    field \in DOMAIN note_update /\ note_update[field] # None

update_note(note_id, note_update) ==
    LET n == Note_get(note_id) IN
    IF n = NoObject
    THEN [response |-> ErrorResponse(HTTPException(404, "Note not found")), notes |-> notes]
    ELSE LET updated ==
                 [n EXCEPT !.title = IF HasField(note_update, "title")
                                     THEN note_update.title ELSE @,
                           !.content = IF HasField(note_update, "content")
                                       THEN note_update.content ELSE @,
                           !.note_type = IF HasField(note_update, "note_type")
                                         THEN note_update.note_type ELSE @]
         IN  [response |-> [status_code |-> 200, body |-> NoteResponse(updated)],
              notes |-> Note_save(updated)]

delete_note(note_id) ==
    LET n == Note_get(note_id) IN
    IF n = NoObject
    THEN [response |-> ErrorResponse(HTTPException(404, "Note not found")), notes |-> notes]
    ELSE [response |-> [status_code |-> 200,
                        body |-> [message |-> "Note deleted successfully"]],
          notes |-> Note_delete(n)]

\* What the sources router and its pipeline hold.
sourcesVars ==
    <<notebooks, transformations, sources, post, last, deleted, ever, files, client,
      inflight, done>>

\* What `note` records of a request served by the notes router.
NoteServed(op, arg, r) == [n |-> budget, op |-> op, arg |-> arg, response |-> r.response]

\* POST /api/notes
PostNotes ==
    /\ budget > 0
    /\ FreeNoteIds # {}
    /\ budget' = budget - 1
    /\ \E note_data \in NoteCreates :
       LET r == create_note(note_data) IN
       /\ notes' = r.notes
       /\ note' = NoteServed("create_note", note_data, r)
    /\ UNCHANGED sourcesVars

\* GET /api/notes
GetNotes ==
    /\ budget > 0
    /\ budget' = budget - 1
    /\ \E notebook_id \in NotebookQueries :
       LET r == get_notes(notebook_id) IN
       /\ notes' = r.notes
       /\ note' = NoteServed("get_notes", notebook_id, r)
    /\ UNCHANGED sourcesVars

\* GET /api/notes/{note_id}
GetNote ==
    /\ budget > 0
    /\ budget' = budget - 1
    /\ \E note_id \in NoteIds :
       LET r == get_note(note_id) IN
       /\ notes' = r.notes
       /\ note' = NoteServed("get_note", note_id, r)
    /\ UNCHANGED sourcesVars

\* PUT /api/notes/{note_id}
PutNote ==
    /\ budget > 0
    /\ budget' = budget - 1
    /\ \E note_id \in NoteIds, note_update \in NoteUpdates :
       LET r == update_note(note_id, note_update) IN
       /\ notes' = r.notes
       /\ note' = [NoteServed("update_note", note_id, r) EXCEPT !.arg = <<note_id, note_update>>]
    /\ UNCHANGED sourcesVars

\* DELETE /api/notes/{note_id}
DeleteNote ==
    /\ budget > 0
    /\ budget' = budget - 1
    /\ \E note_id \in NoteIds :
       LET r == delete_note(note_id) IN
       /\ notes' = r.notes
       /\ note' = NoteServed("delete_note", note_id, r)
    /\ UNCHANGED sourcesVars

\* ------------------------------------------------------------ the API client

\* What becomes of the one exchange httpx makes: the response arrives, or
\* httpx raises a RequestError before the API saw the request (refused) or
\* after the API handled it (lost).
NetOutcomes == {"delivered", "refused", "lost"}

ConnectionError(msg) == [type |-> "ConnectionError", msg |-> msg]

\* response.text of an error response of the API.
ResponseText(response) == "{\"detail\":\"" \o response.detail \o "\"}"

\* _make_request without raise_for_status: the body of any response is returned.
make_request_unchecked(net, response) ==
    IF net # "delivered"
    THEN ConnectionError("Failed to connect to API: request error")
    ELSE [type |-> "return",
          value |-> IF "body" \in DOMAIN response THEN response.body
                    ELSE [detail |-> response.detail]]

\* APIClient._make_request, from the one client.request(...) on: what the call
\* returns or raises, given the exchange's outcome and the API's response.
make_request(net, response) ==
    IF net # "delivered"
    THEN ConnectionError("Failed to connect to API: request error")
    ELSE IF response.status_code \notin 200..299
    THEN RuntimeError("API request failed: " \o ToString(response.status_code)
                      \o " - " \o ResponseText(response))
    ELSE [type |-> "return", value |-> response.body]

\* SourcesService.delete_source around api_client.delete_source.
service_delete_source(outcome) ==
    IF outcome.type = "return" THEN [type |-> "return", value |-> TRUE] ELSE outcome

\* A dict with `key` set to `value` when `present`.
WithKey(dict, present, key, value) ==
    IF present
    THEN [k \in DOMAIN dict \cup {key} |-> IF k = key THEN value ELSE dict[k]]
    ELSE dict

\* The HTTP request each APIClient method hands to _make_request.
Request(method, path, source_id, params, json) ==
    [method |-> method, path |-> path, source_id |-> source_id, params |-> params,
     json |-> json]

client_get_sources(notebook_id) ==
    Request("GET", "/api/sources", None,
            WithKey([none |-> TRUE], ~Falsy(notebook_id), "notebook_id", notebook_id),
            NoObject)

client_create_source(a) ==
    LET data0 == [notebook_id |-> a.notebook_id, type |-> a.source_type,
                  embed |-> a.embed, delete_source |-> a.delete_source]
        data1 == WithKey(data0, ~Falsy(a.url), "url", a.url)
        data2 == WithKey(data1, ~Falsy(a.file_path), "file_path", a.file_path)
        data3 == WithKey(data2, ~Falsy(a.content), "content", a.content)
        data4 == WithKey(data3, a.transformations # <<>>, "transformations", a.transformations)
    IN  Request("POST", "/api/sources", None, NoObject, data4)

client_get_source(source_id) ==
    Request("GET", "/api/sources/{source_id}", source_id, NoObject, NoObject)

client_update_source(source_id, updates) ==
    Request("PUT", "/api/sources/{source_id}", source_id, NoObject, updates)

client_delete_source(source_id) ==
    Request("DELETE", "/api/sources/{source_id}", source_id, NoObject, NoObject)

\* The arguments of the create_source calls made.
ClientCreateArgs ==
    {[notebook_id |-> "nb1", source_type |-> "text", url |-> "", file_path |-> None,
      content |-> "hello", transformations |-> <<>>, embed |-> FALSE,
      delete_source |-> FALSE],
     [notebook_id |-> "nb1", source_type |-> "link", url |-> "http://u", file_path |-> None,
      content |-> None, transformations |-> <<"t1">>, embed |-> TRUE,
      delete_source |-> FALSE],
     [notebook_id |-> "nb1", source_type |-> "link", url |-> "", file_path |-> "/f",
      content |-> None, transformations |-> <<>>, embed |-> FALSE,
      delete_source |-> FALSE],
     [notebook_id |-> "nbX", source_type |-> "upload", url |-> None, file_path |-> "/f",
      content |-> None, transformations |-> <<>>, embed |-> FALSE,
      delete_source |-> TRUE]}

\* The calls made: [call, args, request].
ClientCalls ==
    {[call |-> "get_sources", args |-> [notebook_id |-> q],
      request |-> client_get_sources(q)] : q \in NotebookQueries}
    \cup {[call |-> "create_source", args |-> a, request |-> client_create_source(a)] :
             a \in ClientCreateArgs}
    \cup {[call |-> "get_source", args |-> [source_id |-> id],
           request |-> client_get_source(id)] : id \in SourceIds}
    \cup {[call |-> "update_source", args |-> [source_id |-> id, updates |-> u],
           request |-> client_update_source(id, u)] :
             id \in SourceIds, u \in SourceUpdates}
    \cup {[call |-> "delete_source", args |-> [source_id |-> id],
           request |-> client_delete_source(id)] : id \in SourceIds}

\* The SourceCreate FastAPI parses from the JSON body: absent fields default.
SourceCreate(json) ==
    LET get(key, default) == IF key \in DOMAIN json THEN json[key] ELSE default IN
    SourceCreateOf(json.notebook_id, json.type, get("url", None), get("file_path", None),
                   get("content", None), get("transformations", <<>>),
                   get("embed", FALSE), get("delete_source", FALSE))

\* A call enters _make_request: client.request(...) sends its one request.
ClientSend ==
    /\ client.pc \in {"idle", "done"}
    /\ post.pc = "idle"
    /\ budget > 0
    /\ \E c \in ClientCalls, net \in NetOutcomes :
       client' = [pc |-> "sent", call |-> c.call, args |-> c.args, sent |-> <<c.request>>,
                  net |-> net, n |-> budget]
    /\ UNCHANGED <<notebooks, transformations, sources, post, last, deleted, ever, budget,
                   files, notes, note, inflight, done>>

\* The API handles the request the client sent.
ClientServe ==
    /\ client.pc = "sent"
    /\ client.net # "refused"
    /\ budget = client.n
    /\ LET q == client.sent[Len(client.sent)] IN
       \/ /\ q.method = "GET" /\ q.path = "/api/sources"
          /\ GetSources({NoFault})
          /\ last'.arg = (IF "notebook_id" \in DOMAIN q.params
                          THEN q.params.notebook_id ELSE None)
       \/ /\ q.method = "POST"
          /\ PostSources({[parses |-> TRUE, data |-> SourceCreate(q.json)]}, {NoFault})
       \/ /\ q.method = "GET" /\ q.path = "/api/sources/{source_id}"
          /\ GetSource({NoFault})
          /\ last'.arg = q.source_id
       \/ /\ q.method = "PUT"
          /\ PutSource({NoFault})
          /\ last'.arg = q.source_id
          /\ last'.update = q.json
       \/ /\ q.method = "DELETE"
          /\ DeleteSource({NoFault})
          /\ last'.arg = q.source_id

\* The API's response to the request the client sent, once there is one.
Answered ==
    /\ client.pc = "sent"
    /\ budget < client.n
    /\ client.call = "create_source" => post.pc = "responded"
Answer == IF client.call = "create_source" THEN post.response ELSE last.response

\* _make_request returns or raises, and so does the service method around it.
ClientReceive ==
    /\ client.pc = "sent"
    /\ client.net = "refused" \/ Answered
    /\ LET answer == IF client.net = "refused" THEN NoObject ELSE Answer
           outcome == make_request(client.net, answer)
       IN  client' = [pc |-> "done", call |-> client.call, args |-> client.args,
                      sent |-> client.sent, net |-> client.net, n |-> client.n,
                      answer |-> answer, outcome |-> outcome,
                      service |-> IF client.call = "delete_source"
                                  THEN service_delete_source(outcome) ELSE NoObject]
    /\ UNCHANGED <<notebooks, transformations, sources, post, last, deleted, ever, budget,
                   files, notes, note, inflight, done>>

\* The response of a POST is delivered once the client has taken it.
ClientClose ==
    /\ client.pc # "sent"
    /\ Close

\* ------------------------------------------------------ concurrent requests

\* A PUT or DELETE /api/sources/{source_id} as received; `seen` is the Source
\* stored under its id when it was received.
Received(op, source_id, update) ==
    [op |-> op, source_id |-> source_id, update |-> update, seen |-> Source_get(source_id)]

\* update_source with a suspension between the lookup and the save: it saves
\* the Source it looked up when the request was received.
handle_update_source_suspended(r) ==
    IF r.seen = NoObject
    THEN [response |-> ErrorResponse(update_source_except(HTTPException(404, "Source not found"))),
          calls |-> <<<<"Source.get", r.source_id>>>>, sources |-> sources]
    ELSE LET titled == IF HasTitle(r.update)
                       THEN [r.seen EXCEPT !.title = r.update.title] ELSE r.seen
             updated == IF HasTopics(r.update)
                        THEN [titled EXCEPT !.topics = r.update.topics] ELSE titled
         IN  [response |-> [status_code |-> 200, body |-> SourceResponse(updated)],
              calls |-> <<<<"Source.get", r.source_id>>, <<"Source.save", r.source_id>>>>,
              sources |-> Source_save(updated)]

\* update_source run for a received request: the handler has no await, so its
\* lookup and its save happen in the one step that handles the request.
handle_update_source(r) == update_source(r.source_id, r.update, NoFault)

\* delete_source run for a received request, likewise in one step.
handle_delete_source(r) == delete_source(r.source_id, NoFault)

\* What `done` records of a request handled while `others` were in flight.
Handled(r, response, others) ==
    [op |-> r.op, source_id |-> r.source_id, update |-> r.update,
     status_code |-> response.status_code, others |-> others]

\* A PUT or a DELETE is received while others may be in flight.
Arrive ==
    /\ budget > 0
    /\ budget' = budget - 1
    /\ \E source_id \in SourceIds :
       \/ \E source_update \in SourceUpdates :
            inflight' = inflight \cup {Received("update_source", source_id, source_update)}
       \/ inflight' = inflight \cup {Received("delete_source", source_id, NoObject)}
    /\ UNCHANGED <<notebooks, transformations, sources, post, last, deleted, ever, files,
                   notes, note, client, done>>

\* The event loop runs update_source for one of the requests in flight.
HandlePut ==
    /\ \E r \in inflight :
       /\ r.op = "update_source"
       /\ LET res == handle_update_source(r) IN
          /\ sources' = res.sources
          /\ last' = Served("update_source", r.source_id, r.update, NoFault, res)
          /\ done' = Append(done, Handled(r, res.response, inflight \ {r}))
       /\ inflight' = inflight \ {r}
    /\ UNCHANGED <<notebooks, transformations, post, deleted, ever, budget, files,
                   notes, note, client>>

\* The event loop runs delete_source for one of the requests in flight.
HandleDelete ==
    /\ \E r \in inflight :
       /\ r.op = "delete_source"
       /\ LET res == handle_delete_source(r) IN
          /\ sources' = res.sources
          /\ last' = Served("delete_source", r.source_id, NoObject, NoFault, res)
          /\ deleted' = IF res.response.status_code = 200
                        THEN deleted \cup {r.source_id} ELSE deleted
          /\ done' = Append(done, Handled(r, res.response, inflight \ {r}))
       /\ inflight' = inflight \ {r}
    /\ UNCHANGED <<notebooks, transformations, post, ever, budget, files,
                   notes, note, client>>

\* ---------------------------------------------------------- specifications

\* A Source as the pipeline stored it for a link request.
StoredSource ==
    pipeline_source("s1", [content_state |-> [url |-> "http://u"], notebook_id |-> "nb1",
                           apply_transformations |-> <<>>, embed |-> TRUE])

Init ==
    /\ notebooks = {"nb1", "nb2"}
    /\ transformations = {"t1", "t2"}
    /\ sources \in {<<>>, [id \in {"s1"} |-> StoredSource]}
    /\ post = Idle
    /\ last = [n |-> MaxRequests + 1, op |-> "none"]
    /\ deleted = {}
    /\ ever = DOMAIN sources
    /\ budget = MaxRequests
    /\ files = {"/f"}
    /\ notes = <<>>
    /\ note = [n |-> MaxRequests + 1, op |-> "none"]
    /\ client = [pc |-> "idle"]
    /\ inflight = {}
    /\ done = <<>>

\* The ingestion endpoint alone, over every body, with a store that answers.
Next ==
    \/ PostSources(Bodies, {NoFault})
    \/ PipelineStep
    \/ PostResume
    \/ Close

Spec == Init /\ [][Next]_vars

\* All five endpoints, with a store that answers.
NextCrud ==
    \/ PostSources(CrudBodies, {NoFault})
    \/ PipelineStep
    \/ PostResume
    \/ Close
    \/ GetSources({NoFault})
    \/ GetSource({NoFault})
    \/ PutSource({NoFault})
    \/ DeleteSource({NoFault})

SpecCrud == Init /\ [][NextCrud]_vars

\* All five endpoints, with a store whose calls may raise.
NextFault ==
    \/ PostSources(FaultBodies, Faults)
    \/ PipelineStep
    \/ PostResume
    \/ Close
    \/ GetSources(Faults)
    \/ GetSource(Faults)
    \/ PutSource(Faults)
    \/ DeleteSource(Faults)

SpecFault == Init /\ [][NextFault]_vars

\* The five endpoints of the notes router, with a store that answers.
NextNotes ==
    \/ PostNotes
    \/ GetNotes
    \/ GetNote
    \/ PutNote
    \/ DeleteNote

SpecNotes == Init /\ [][NextNotes]_vars

\* One client calling the sources endpoints of the API, one call at a time.
NextClient ==
    \/ ClientSend
    \/ ClientServe
    \/ PipelineStep
    \/ PostResume
    \/ ClientReceive
    \/ ClientClose

SpecClient == Init /\ [][NextClient]_vars

\* PUT and DELETE requests on the sources, received concurrently and handled
\* one at a time, in any order.
NextConcurrent ==
    \/ Arrive
    \/ HandlePut
    \/ HandleDelete

SpecConcurrent == Init /\ [][NextConcurrent]_vars

\* -------------------------------------------------- the ingestion request

\* The request of the POST in progress, once it parsed into SourceCreate.
PostParsed == post.pc # "idle" /\ post.body.parses
PostData == post.body.data
PostResponded == post.pc = "responded"

OriginKinds == {"link", "upload", "text"}
RequiredField(d) ==
    IF d.type = "link" THEN d.url ELSE IF d.type = "upload" THEN d.file_path ELSE d.content
BadOrigin(d) == d.type \notin OriginKinds \/ RequiredField(d) \in {None, ""}

\* source_graph.ainvoke was called for the POST in progress.
PipelineInvoked ==
    \/ Len(post.invoked) > 0
    \/ post.runs > 0
    \/ \E i \in 1..Len(post.calls) : post.calls[i][1] = "source_graph.ainvoke"

Unresolved(ids) == {i \in 1..Len(ids) : ids[i] \notin transformations}
FirstUnresolved(ids) == CHOOSE i \in Unresolved(ids) : \A j \in Unresolved(ids) : i <= j

\* C1: with an existing notebook, an origin kind other than link, upload, text, or
\* a required field (url, file_path, content) that is absent or empty, ends the
\* request with status 400, and source_graph.ainvoke is not called for it.
C1_BadOriginIs400 ==
    (PostParsed /\ PostData.notebook_id \in notebooks /\ BadOrigin(PostData))
        => /\ PostResponded
           /\ post.response.status_code = 400
           /\ ~PipelineInvoked

\* An upload request whose file_path is empty, carrying a url and a content, was
\* answered 400.
C1_Witness ==
    /\ PostParsed /\ PostResponded
    /\ PostData.notebook_id \in notebooks
    /\ PostData.type = "upload" /\ PostData.file_path = ""
    /\ PostData.url = "http://u" /\ PostData.content = "hello"
    /\ post.response.status_code = 400

\* C2: a notebook_id that does not resolve ends the request with 404 whatever the
\* other fields are: Notebook.get is the only collaborator call made (no
\* Transformation.get, no pipeline), also when the origin is invalid.
C2_MissingNotebookIs404 ==
    (PostParsed /\ PostData.notebook_id \notin notebooks)
        => /\ PostResponded
           /\ post.response = [status_code |-> 404, detail |-> "Notebook not found"]
           /\ post.calls = <<<<"Notebook.get", PostData.notebook_id>>>>
           /\ ~PipelineInvoked

\* A request with a missing notebook, an invalid origin and an unresolvable
\* transformation id was answered 404.
C2_Witness ==
    /\ PostParsed /\ PostResponded
    /\ PostData.notebook_id \notin notebooks
    /\ PostData.type = "other"
    /\ PostData.transformations = <<"t1", "tX">>
    /\ post.response.status_code = 404

\* C3: with a valid notebook and origin, the transformation ids are looked up in
\* the order given; the request ends with 404 naming the first id that does not
\* resolve, no id after it is looked up, and the pipeline is not invoked.
C3_FirstUnresolvedIs404 ==
    (PostParsed /\ PostData.notebook_id \in notebooks /\ ~BadOrigin(PostData)
       /\ Unresolved(PostData.transformations) # {})
        => LET ids == PostData.transformations
               k == FirstUnresolved(ids)
           IN  /\ PostResponded
               /\ post.response =
                     [status_code |-> 404,
                      detail |-> "Transformation " \o ids[k] \o " not found"]
               /\ post.calls =
                     <<<<"Notebook.get", PostData.notebook_id>>>> \o
                     [i \in 1..k |-> <<"Transformation.get", ids[i]>>]
               /\ ~PipelineInvoked

\* A request listing a valid id and then an unresolvable one was answered 404 for
\* the second, as was one listing two unresolvable ids for its first.
C3_Witness ==
    /\ PostParsed /\ PostResponded
    /\ PostData.notebook_id \in notebooks /\ ~BadOrigin(PostData)
    /\ PostData.transformations = <<"t1", "tX">>
    /\ post.response.detail = "Transformation tX not found"
    /\ Len(post.calls) = 3

\* C4: whenever the pipeline is invoked, its content_state holds the one origin
\* shape of the request's kind and nothing else (link: url; upload: file_path and
\* delete_source; text: content), the required field is not empty, and
\* notebook_id, embed and the resolved Transformations are those of the request,
\* in the same order and number.
C4_InvokedWithNormalizedState ==
    (PostParsed /\ Len(post.invoked) > 0)
        => LET args == post.invoked[1]
               cs == args.content_state
               d == PostData
           IN  /\ d.type \in OriginKinds
               /\ d.type = "link" =>
                     DOMAIN cs = {"url"} /\ cs.url = d.url /\ cs.url \notin {None, ""}
               /\ d.type = "upload" =>
                     /\ DOMAIN cs = {"file_path", "delete_source"}
                     /\ cs.file_path = d.file_path /\ cs.file_path \notin {None, ""}
                     /\ cs.delete_source = d.delete_source
               /\ d.type = "text" =>
                     DOMAIN cs = {"content"} /\ cs.content = d.content
                     /\ cs.content \notin {None, ""}
               /\ DOMAIN args = {"content_state", "notebook_id", "apply_transformations", "embed"}
               /\ args.notebook_id = d.notebook_id
               /\ args.embed = d.embed
               /\ Len(args.apply_transformations) = Len(d.transformations)
               /\ \A i \in 1..Len(d.transformations) :
                     /\ d.transformations[i] \in transformations
                     /\ args.apply_transformations[i].id = d.transformations[i]

\* The pipeline was invoked for a link request that also carried a file_path and
\* a content, with two transformations.
C4_Witness ==
    /\ PostParsed /\ Len(post.invoked) > 0
    /\ PostData.type = "link" /\ PostData.file_path = "/f" /\ PostData.content = "hello"
    /\ PostData.transformations = <<"t2", "t1">>
    /\ PostData.embed

\* C5: a request passes Received, Validated, Dispatched, Responded in that order.
\* The pipeline is invoked at most once for a request and runs at most once per
\* invocation (no retry); it is invoked only after the notebook lookup, the origin
\* branch and every transformation lookup succeeded, as the last collaborator
\* call; no response exists before the pipeline has finished, and a 200 only
\* after it returned.
C5_Stages ==
    post.pc # "idle" =>
        /\ Len(post.invoked) <= 1
        /\ post.runs <= Len(post.invoked)
        /\ Len(post.invoked) = 1 =>
              /\ post.body.parses
              /\ PostData.notebook_id \in notebooks
              /\ ~BadOrigin(PostData)
              /\ Unresolved(PostData.transformations) = {}
              /\ post.calls =
                    <<<<"Notebook.get", PostData.notebook_id>>>> \o
                    [i \in 1..Len(PostData.transformations) |->
                        <<"Transformation.get", PostData.transformations[i]>>] \o
                    <<<<"source_graph.ainvoke", PostData.notebook_id>>>>
        /\ post.pc = "awaiting" => post.runs = 0 /\ post.response = NoObject
        /\ post.pc = "resuming" => post.runs = 1 /\ post.response = NoObject
        /\ post.pc = "responded" =>
              /\ post.response # NoObject
              /\ post.runs = Len(post.invoked)
              /\ post.response.status_code = 200 =>
                    post.runs = 1 /\ post.outcome = Returned

C5_Steps ==
    [][post'.pc # post.pc =>
          /\ <<post.pc, post'.pc>> \in
                {<<"idle", "awaiting">>, <<"idle", "responded">>,
                 <<"awaiting", "resuming">>, <<"resuming", "responded">>,
                 <<"responded", "idle">>}
          /\ (post.pc # "idle" /\ post'.pc # "idle") =>
                post'.body = post.body /\ post'.invoked = post.invoked]_vars

C5_Lifecycle == []C5_Stages /\ C5_Steps

\* A request was answered 200 after its one pipeline run.
C5_Witness ==
    /\ PostResponded /\ post.response.status_code = 200
    /\ post.runs = 1 /\ Len(PostData.transformations) = 2

\* C6: a request that validation ends (400 or 404, also after earlier
\* transformation ids resolved) has made only get calls, and leaves the stored
\* Sources, Notebooks and Transformations as they were.
C6_ValidationOnlyReads ==
    [][(post.pc = "idle" /\ post'.pc = "responded") =>
          /\ sources' = sources
          /\ notebooks' = notebooks
          /\ transformations' = transformations
          /\ \A i \in 1..Len(post'.calls) :
                post'.calls[i][1] \in {"Notebook.get", "Transformation.get"}]_vars

\* With a Source stored, a request was answered 404 for its second
\* transformation id after the first had resolved.
C6_Witness ==
    /\ PostParsed /\ PostResponded /\ post.runs = 0
    /\ DOMAIN sources # {}
    /\ PostData.transformations = <<"t2", "tY">>
    /\ post.response.status_code = 404
    /\ Len(post.calls) = 3

\* C7: when the pipeline raises InvalidInputError the request ends with 400; when
\* it raises anything else that is not an HTTPException the request ends with 500
\* and the detail ends with the error's message.
C7_PipelineFailureStatus ==
    (PostResponded /\ post.runs = 1 /\ post.outcome.type # "return") =>
        /\ post.outcome.type = "InvalidInputError" => post.response.status_code = 400
        /\ post.outcome.type \notin {"InvalidInputError", "HTTPException"} =>
              /\ post.response.status_code = 500
              /\ \E prefix \in {"", "Error creating source: "} :
                    post.response.detail = prefix \o post.outcome.msg

\* The pipeline raised an error of no class the handler names and the request
\* was answered 500.
C7_Witness ==
    /\ PostResponded /\ post.runs = 1
    /\ post.outcome.type = "RuntimeError"
    /\ post.response.status_code = 500

\* The collaborator call that `fault` makes raise was made.
FaultRaised(calls, fault) ==
    fault.at \in 1..Len(calls) /\ calls[fault.at][1] # "source_graph.ainvoke"

\* C8: in each of the five handlers an HTTPException raised in the body reaches
\* the caller with its status code and detail: one raised by a store call or by
\* the pipeline is the response, and the handlers' own 400 and 404 are never
\* answered as 500.
C8_HTTPExceptionPassesThrough ==
    /\ (last.op # "none" /\ FaultRaised(last.calls, last.fault)
          /\ last.fault.exc.type = "HTTPException")
           => last.response = [status_code |-> last.fault.exc.status_code,
                               detail |-> last.fault.exc.detail]
    /\ (last.op # "none" /\ ~FaultRaised(last.calls, last.fault))
           => last.response.status_code \in {200, 404}
    /\ (PostParsed /\ PostResponded /\ FaultRaised(post.calls, post.fault)
          /\ post.fault.exc.type = "HTTPException")
           => post.response = [status_code |-> post.fault.exc.status_code,
                               detail |-> post.fault.exc.detail]
    /\ (PostParsed /\ PostResponded /\ post.runs = 1 /\ post.outcome.type = "HTTPException")
           => post.response = [status_code |-> post.outcome.status_code,
                               detail |-> post.outcome.detail]
    /\ (PostParsed /\ PostResponded /\ post.runs = 0 /\ ~FaultRaised(post.calls, post.fault))
           => post.response.status_code \in {400, 404}

\* Source.delete raised an HTTPException and DELETE was answered with it.
C8_Witness ==
    /\ last.op = "delete_source"
    /\ last.fault.at = 2 /\ Len(last.calls) = 2
    /\ last.fault.exc.type = "HTTPException"
    /\ last.response.status_code = 503

C10_DeletedIs404 ==
    (last.op \in {"get_source", "update_source", "delete_source"}) =>
        /\ last.was_deleted => last.response.status_code = 404
        /\ (last.op = "delete_source" /\ ~last.was_ever) => last.response.status_code = 404

C10_NeverStoredUnchanged ==
    [][(last'.n # last.n /\ last'.op = "delete_source" /\ last'.arg \notin ever) =>
          sources' = sources /\ last'.response.status_code = 404]_vars

C10_AfterDelete == []C10_DeletedIs404 /\ C10_NeverStoredUnchanged

\* PUT of an id whose DELETE had been answered 200 was answered 404.
C10_Witness ==
    /\ last.op = "update_source"
    /\ last.was_deleted /\ last.was_ever
    /\ last.response.status_code = 404


\* ------------------------------------------------------------ partial update

\* A PUT answered 200 in this step.
PutSaved == last'.n # last.n /\ last'.op = "update_source" /\ last'.response.status_code = 200

\* C11: a PUT answered 200 changes, in the stored Source of its id, only the
\* fields its update carries non-null: title becomes the update's title if it
\* has one and stays otherwise, topics likewise, and asset, full_text and
\* embedded_chunks stay; no other Source changes, and the GET of the same id
\* that follows answers with the Source so stored.
C11_PutChangesOnlyPresentFields ==
    [][\A id \in SourceIds :
        (PutSaved /\ last'.arg = id) =>
        LET u == last'.update
        IN  /\ id \in DOMAIN sources
            /\ DOMAIN sources' = DOMAIN sources
            /\ \A other \in DOMAIN sources \ {id} : sources'[other] = sources[other]
            /\ sources'[id].title = (IF HasTitle(u) THEN u.title ELSE sources[id].title)
            /\ sources'[id].topics = (IF HasTopics(u) THEN u.topics ELSE sources[id].topics)
            /\ sources'[id].asset = sources[id].asset
            /\ sources'[id].full_text = sources[id].full_text
            /\ sources'[id].embedded_chunks = sources[id].embedded_chunks
            /\ (get_source(id, NoFault).response)' =
                   [status_code |-> 200, body |-> SourceResponse(sources'[id])]
            /\ (get_source(id, NoFault).sources)' = sources'
      ]_vars

\* A PUT carrying only a title was answered 200 for a Source that had topics,
\* an asset and text, which it still has.
C11_Witness ==
    /\ last.op = "update_source"
    /\ last.update = [title |-> "a"]
    /\ last.response.status_code = 200
    /\ last.arg \in DOMAIN sources
    /\ sources[last.arg].title = "a"
    /\ sources[last.arg].topics = <<"x">>
    /\ sources[last.arg].asset # NoObject
    /\ sources[last.arg].full_text # None


\* ------------------------------------------------------------------ the list

\* A GET /api/sources with query notebook_id = q answered in this step.
ListServed(q) == last'.n # last.n /\ last'.op = "get_sources" /\ last'.arg = q

\* The list entries of the stored Sources with ids among `ids`.
ListOf(ids) == {SourceListResponse(sources[id]) : id \in ids}

\* C12: GET /api/sources changes nothing in the store; with a non-empty
\* notebook_id that is no stored Notebook it answers 404 "Notebook not found";
\* with the id of a stored Notebook it answers 200 with exactly the Sources of
\* that Notebook; with no notebook_id, or an empty one, it answers 200 with
\* all Sources.
C12_ListByNotebook ==
    [][\A q \in NotebookQueries :
        ListServed(q) =>
        /\ sources' = sources
        /\ IF Falsy(q)
           THEN last'.response = [status_code |-> 200, body |-> ListOf(DOMAIN sources)]
           ELSE IF q \notin notebooks
           THEN last'.response = [status_code |-> 404, detail |-> "Notebook not found"]
           ELSE last'.response =
                   [status_code |-> 200,
                    body |-> ListOf({id \in DOMAIN sources : sources[id].notebook_id = q})]
      ]_vars

\* C12 as stated: whenever a notebook_id is given and is no stored Notebook,
\* GET /api/sources answers 404.
C12_GivenUnresolvedIs404 ==
    [][\A q \in NotebookQueries :
        (ListServed(q) /\ q # None /\ q \notin notebooks) =>
        last'.response.status_code = 404
      ]_vars

\* The list of one Notebook was answered with one of the two stored Sources,
\* the other being in another Notebook.
C12_Witness ==
    /\ last.op = "get_sources"
    /\ last.arg = "nb2"
    /\ last.response.status_code = 200
    /\ Cardinality(DOMAIN sources) = 2
    /\ {e.id : e \in last.response.body} = {"s2"}
    /\ sources["s1"].notebook_id = "nb1"


\* ----------------------------------------------------------- uploaded files

\* The pipeline is finishing the invocation in this step.
PipelineFinishes == post.pc = "awaiting" /\ post'.pc = "resuming"

\* C13: no step of the handlers changes the uploaded files on disk, whatever
\* the path (validation failure, pipeline failure, success): only the pipeline
\* does, for an upload request whose content_state carries a true delete flag.
\* The content_state given to the pipeline carries the delete flag exactly for
\* an upload request, with the request's value, and an upload whose extraction
\* failed is still on disk when the request is answered.
C13_BoundaryNeverUnlinks ==
    [][/\ ~PipelineFinishes => files' = files
       /\ files' # files =>
             /\ post.body.data.type = "upload"
             /\ post.body.data.delete_source = TRUE
             /\ files' = files \ {post.body.data.file_path}
       /\ (post'.pc # "idle" /\ Len(post'.invoked) > 0) =>
             LET cs == post'.invoked[1].content_state IN
             /\ "delete_source" \in DOMAIN cs <=> post'.body.data.type = "upload"
             /\ post'.body.data.type = "upload" =>
                   /\ cs.delete_source = post'.body.data.delete_source
                   /\ cs.file_path = post'.body.data.file_path
       /\ (post.pc = "resuming" /\ ~post.extracted /\ post'.pc = "responded") =>
             /\ files' = files
             /\ post'.response.status_code # 200
      ]_vars

\* An upload asking for deletion was answered with an error after its
\* extraction failed, and its file is on disk.
C13_Witness ==
    /\ post.pc = "responded"
    /\ PipelineInvoked
    /\ post.body.data.type = "upload"
    /\ post.body.data.delete_source = TRUE
    /\ ~post.extracted
    /\ post.response.status_code = 500
    /\ post.body.data.file_path \in files


\* ------------------------------------------------------------------- notes

\* A POST /api/notes naming a notebook that is not stored is answered in this step.
NoteForMissingNotebook ==
    /\ note'.n # note.n
    /\ note'.op = "create_note"
    /\ ~Falsy(note'.arg.notebook_id)
    /\ note'.arg.notebook_id \notin notebooks

\* C14: a POST /api/notes whose notebook_id is no stored Notebook is answered
\* 404 and leaves the stored notes as they were.
C14_MissingNotebookSavesNothing ==
    [][NoteForMissingNotebook =>
         /\ note'.response.status_code = 404
         /\ notes' = notes
      ]_vars

\* A POST /api/notes naming a missing notebook was answered 404 and the store
\* holds the request's note, in no notebook.
C14_Witness ==
    /\ note.op = "create_note"
    /\ note.arg.notebook_id = "nbX"
    /\ note.response = [status_code |-> 404, detail |-> "Notebook not found"]
    /\ \E id \in DOMAIN notes :
         /\ notes[id].title = note.arg.title
         /\ notes[id].content = note.arg.content
         /\ notes[id].notebook_id = None


\* ------------------------------------------------------------------ client

\* C15: an APIClient call sends one HTTP request, which the API handles at
\* most once; when the exchange fails the call raises ConnectionError, when
\* the API answers outside 200..299 it raises RuntimeError with a message
\* holding the status code, and it returns a value, the response's body, only
\* for an answer within 200..299; SourcesService.delete_source returns True
\* only when the API answered the DELETE 200, the Source then being gone.
C15_OneRequestNoRetry ==
    /\ client.pc # "idle" =>
          /\ Len(client.sent) = 1
          /\ client.n - budget \in {0, 1}
          /\ client.net = "refused" => budget = client.n
    /\ client.pc = "done" =>
          /\ client.net # "delivered" => client.outcome.type = "ConnectionError"
          /\ (client.net = "delivered" /\ client.answer.status_code \notin 200..299) =>
                /\ client.outcome.type = "RuntimeError"
                /\ client.outcome.msg =
                      "API request failed: " \o ToString(client.answer.status_code)
                      \o " - " \o ResponseText(client.answer)
          /\ client.outcome.type = "return" =>
                /\ client.net = "delivered"
                /\ budget = client.n - 1
                /\ client.answer.status_code \in 200..299
                /\ client.outcome.value = client.answer.body
          /\ (client.call = "delete_source" /\ client.service.type = "return") =>
                /\ client.service.value = TRUE
                /\ client.answer = [status_code |-> 200,
                                    body |-> [message |-> "Source deleted successfully"]]
                /\ client.args.source_id \notin DOMAIN sources

\* SourcesService.delete_source returned True for a Source that was stored.
C15_Witness ==
    /\ client.pc = "done"
    /\ client.call = "delete_source"
    /\ client.service = [type |-> "return", value |-> TRUE]
    /\ client.args.source_id \in ever
    /\ Len(client.sent) = 1


\* -------------------------------------------------------------- concurrency

\* The two requests handled last were PUTs on one id answered 200, the first
\* handled while the second was in flight, one carrying only a title and the
\* other only topics.
TwoConcurrentPuts ==
    /\ Len(done) >= 2
    /\ LET p == done[Len(done) - 1]
           q == done[Len(done)]
       IN  /\ p.op = "update_source" /\ q.op = "update_source"
           /\ p.source_id = q.source_id
           /\ p.status_code = 200 /\ q.status_code = 200
           /\ \E r \in p.others :
                r.op = "update_source" /\ r.source_id = q.source_id /\ r.update = q.update
           /\ \/ HasTitle(p.update) /\ ~HasTopics(p.update)
                 /\ HasTopics(q.update) /\ ~HasTitle(q.update)
              \/ HasTopics(p.update) /\ ~HasTitle(p.update)
                 /\ HasTitle(q.update) /\ ~HasTopics(q.update)

\* C16: requests are handled one whole handler at a time. After two
\* concurrent PUTs on one id, one carrying only a title and the other only
\* topics, the stored Source has the title of the one and the topics of the
\* other. A PUT handled after a DELETE of its id was answered 200 is answered
\* 404, whenever it was received, and a Source so deleted stays deleted.
C16_ConcurrentPutsAndDelete ==
    /\ TwoConcurrentPuts =>
          LET p == done[Len(done) - 1]
              q == done[Len(done)]
              t == IF HasTitle(p.update) THEN p.update.title ELSE q.update.title
              k == IF HasTopics(p.update) THEN p.update.topics ELSE q.update.topics
          IN  /\ p.source_id \in DOMAIN sources
              /\ sources[p.source_id].title = t
              /\ sources[p.source_id].topics = k
    /\ \A i \in 1..Len(done) :
          (done[i].op = "delete_source" /\ done[i].status_code = 200) =>
             /\ done[i].source_id \notin DOMAIN sources
             /\ \A j \in (i + 1)..Len(done) :
                   done[j].source_id = done[i].source_id => done[j].status_code = 404

\* Two concurrent PUTs, one of a title and one of topics, were both handled
\* and the stored Source has both.
C16_Witness ==
    /\ TwoConcurrentPuts
    /\ Len(done) = 2
    /\ inflight = {}
    /\ sources[done[1].source_id].title = "a"
    /\ sources[done[1].source_id].topics = <<"x">>

====
